---- MODULE Spec2Model ----
(***************************************************************************)
(* DoneZit: the useTasks hook (Firestore version) as a state machine, and  *)
(* its pure helper sortTasks.                                              *)
(*                                                                         *)
(* Six specifications share this module:                                   *)
(*   SortSpec  sortTasks applied to every bounded input array              *)
(*   Spec      the hook: user changes, the realtime listener, the save     *)
(*             effect, and the four asynchronous mutations                 *)
(*   ViewSpec  the hook's derived values (filteredTasks, getTaskStats)     *)
(*             over every bounded list, filter and category filter         *)
(*   EditSpec  the mutations of one signed-in user on a list of several    *)
(*             tasks                                                       *)
(*   ApiSpec   addTask and updateTask as any caller of the hook can call   *)
(*             them, on a collection that starts empty                     *)
(*   FaultSpec user changes and the listener over a localStorage that may  *)
(*             hold anything and may refuse writes                         *)
(*                                                                         *)
(* Dates are points in time in milliseconds (what Date.getTime returns).   *)
(***************************************************************************)
EXTENDS Integers, Sequences, FiniteSets

\* ---------------------------------------------------------------- bounds
\* longest array handed to sortTasks in SortSpec
MaxLen == 2
\* deadlines and creation times of SortSpec range over 0..MaxDate
MaxDate == 1

\* ---------------------------------------------------------------- types
Priorities == {"low", "medium", "high"}
Statuses == {"pending", "completed"}
Users == {"u1", "u2"}
\* userId === null
NoUser == "none"

Dates == 0..MaxDate

\* Task.category is a string or missing; a missing category is undefined in a
\* task built by the hook and null in a document
Undefined == "<undefined>"
Null == "<null>"

\* x || null
OrNull(x) == IF x \in {Undefined, Null, ""} THEN Null ELSE x

\* ------------------------------------------------------------ sortTasks
\* variant: medium and low exchanged
PRIORITY_WEIGHT_swapped == [high |-> 3, medium |-> 1, low |-> 2]

PRIORITY_WEIGHT == [high |-> 3, medium |-> 2, low |-> 1]

\* variant: the status is not looked at when it differs
compare_noStatus(a, b) ==
  IF a.status # b.status THEN 0
  ELSE IF a.status = "pending"
       THEN LET priorityDiff == PRIORITY_WEIGHT[b.priority] - PRIORITY_WEIGHT[a.priority]
                deadlineDiff == a.deadline - b.deadline
            IN  IF priorityDiff # 0 THEN priorityDiff
                ELSE IF deadlineDiff # 0 THEN deadlineDiff
                ELSE a.createdAt - b.createdAt
       ELSE b.createdAt - a.createdAt

\* variant: completed tasks oldest first
compare_completedOldestFirst(a, b) ==
  IF a.status # b.status
  THEN (IF a.status = "completed" THEN 1 ELSE -1)
  ELSE IF a.status = "pending"
       THEN LET priorityDiff == PRIORITY_WEIGHT[b.priority] - PRIORITY_WEIGHT[a.priority]
                deadlineDiff == a.deadline - b.deadline
            IN  IF priorityDiff # 0 THEN priorityDiff
                ELSE IF deadlineDiff # 0 THEN deadlineDiff
                ELSE a.createdAt - b.createdAt
       ELSE a.createdAt - b.createdAt

\* variant: no tie-break on the creation time of pending tasks
compare_noCreatedTie(a, b) ==
  IF a.status # b.status
  THEN (IF a.status = "completed" THEN 1 ELSE -1)
  ELSE IF a.status = "pending"
       THEN LET priorityDiff == PRIORITY_WEIGHT[b.priority] - PRIORITY_WEIGHT[a.priority]
                deadlineDiff == a.deadline - b.deadline
            IN  IF priorityDiff # 0 THEN priorityDiff
                ELSE IF deadlineDiff # 0 THEN deadlineDiff
                ELSE 0
       ELSE b.createdAt - a.createdAt

\* variant: tasks with equal keys are reported as out of order
compare_neverEqual(a, b) ==
  IF a.status # b.status
  THEN (IF a.status = "completed" THEN 1 ELSE -1)
  ELSE IF a.status = "pending"
       THEN LET priorityDiff == PRIORITY_WEIGHT[b.priority] - PRIORITY_WEIGHT[a.priority]
                deadlineDiff == a.deadline - b.deadline
                createdDiff == a.createdAt - b.createdAt
            IN  IF priorityDiff # 0 THEN priorityDiff
                ELSE IF deadlineDiff # 0 THEN deadlineDiff
                ELSE IF createdDiff # 0 THEN createdDiff
                ELSE 1
       ELSE IF b.createdAt # a.createdAt THEN b.createdAt - a.createdAt ELSE 1

\* the comparator handed to Array.prototype.sort
compare(a, b) ==
  IF a.status # b.status
  THEN (IF a.status = "completed" THEN 1 ELSE -1)
  ELSE IF a.status = "pending"
       THEN LET priorityDiff == PRIORITY_WEIGHT[b.priority] - PRIORITY_WEIGHT[a.priority]
                deadlineDiff == a.deadline - b.deadline
            IN  IF priorityDiff # 0 THEN priorityDiff
                ELSE IF deadlineDiff # 0 THEN deadlineDiff
                ELSE a.createdAt - b.createdAt
       ELSE b.createdAt - a.createdAt

\* one step of the stable sort: x goes behind every element that does not
\* compare greater than it
RECURSIVE InsertSorted(_, _)
InsertSorted(s, x) ==
  IF s = <<>> THEN <<x>>
  ELSE IF compare(s[Len(s)], x) > 0
       THEN Append(InsertSorted(SubSeq(s, 1, Len(s) - 1), x), s[Len(s)])
       ELSE Append(s, x)

\* Array.prototype.sort (stable since ES2019) on a copy of the array
RECURSIVE ArraySort(_)
ArraySort(arr) ==
  IF arr = <<>> THEN <<>>
  ELSE InsertSorted(ArraySort(SubSeq(arr, 1, Len(arr) - 1)), arr[Len(arr)])

sortTasks(tasks) == ArraySort(tasks)

\* ------------------------------------------------- SortSpec: sortTasks
VARIABLES
  sortIn,    \* the array the caller passes to sortTasks
  sortIn2,   \* a second array holding the same tasks, in any order
  sortOut,   \* sortTasks(sortIn)
  sortOut2,  \* sortTasks(sortIn2)
  sortPc     \* "idle" | "call" | "done"

sortVars == <<sortIn, sortIn2, sortOut, sortOut2, sortPc>>

\* a Task, restricted to the fields the hook reads
TaskOf(i, u, ti, st, pr, dl, cr, ca) ==
  [id |-> i, userId |-> u, title |-> ti, status |-> st, priority |-> pr, deadline |-> dl,
   createdAt |-> cr, category |-> ca]

\* the fields sortTasks compares, one tuple per task
SortFields == Statuses \X Priorities \X Dates \X Dates

\* the array of the tasks with the fields f[1], f[2], ...; the task at index i
\* has id <<"doc", i>>
ArrayOf(f) ==
  [i \in DOMAIN f |->
     TaskOf(<<"doc", i>>, "u1", "task", f[i][1], f[i][2], f[i][3], f[i][4], "work")]

Permutations(n) == { p \in [1..n -> 1..n] : \A i, j \in 1..n : p[i] = p[j] => i = j }

Permute(arr, p) == [i \in 1..Len(arr) |-> arr[p[i]]]

SortIdle ==
  /\ sortIn = <<>> /\ sortIn2 = <<>> /\ sortOut = <<>> /\ sortOut2 = <<>>
  /\ sortPc = "idle"

\* return [...tasks].sort(cmp): the copy is sorted, the argument is left alone
SortTasksCall ==
  /\ sortPc = "call"
  /\ sortOut' = sortTasks(sortIn)
  /\ sortOut2' = sortTasks(sortIn2)
  /\ sortPc' = "done"
  /\ UNCHANGED <<sortIn, sortIn2>>

\* ------------------------------------------------------ Spec: useTasks
VARIABLES
  userId,     \* the userId argument of the current render, NoUser for null
  tasks,      \* useState<Task[]>: the in-memory list
  listeners,  \* users whose onSnapshot listener is attached
  unsub,      \* the listener the effect's cleanup detaches, NoUser if the effect returned none
  remote,     \* Firestore: users/<u>/tasks as a set of documents
  cache,      \* localStorage: the entry under tasks_<u>
  inflight,   \* started mutations whose remote write has not settled yet
  nextId,     \* the next auto-generated document id
  now,        \* the clock (Date.now, serverTimestamp)
  filter,          \* useState<FilterType>
  categoryFilter,  \* useState<string | null>
  storageOk,       \* environment: localStorage.setItem stores the value (it throws otherwise)
  escaped,         \* an error left the hook: thrown out of an effect, or as the rejection of a mutation
  origin,     \* history: where the list comes from, see below
  persisted   \* history: per user, the list the last delivered snapshot put in the cache

hookVars == <<userId, tasks, listeners, unsub, remote, cache, inflight, nextId, now>>
viewVars == <<filter, categoryFilter>>
faultVars == <<storageOk, escaped>>
histVars == <<origin, persisted>>
vars == <<hookVars, viewVars, faultVars, histVars, sortVars>>

\* origin is
\*   "snapshot"  the last delivered snapshot set the list
\*   "replaced"  the same, and the list it replaced held a fallback edit
\*   "edit"      a fallback edit changed the list after the last snapshot
\*   "none"      the list was cleared, kept over a user change or loaded from the cache

\* Timestamp.fromDate / Timestamp.toDate
FromDate(d) == <<"ts", d>>
ToDate(ts) == ts[2]

\* new Date(undefined): an invalid date
InvalidDate == -1

\* JSON.stringify of a Date (null for an invalid date) / new Date of the
\* stored value (the epoch for null)
ToJSON(d) == IF d = InvalidDate THEN <<"null", 0>> ELSE <<"iso", d>>
NewDate(str) == IF str[1] = "null" THEN 0 ELSE str[2]

\* JSON.stringify(tasks)
Stringify(list) ==
  [i \in 1..Len(list) |->
     [list[i] EXCEPT !.createdAt = ToJSON(@), !.deadline = ToJSON(@)]]

\* JSON.parse and the map that turns the date strings back into Dates
ParseStored(items) ==
  [i \in 1..Len(items) |->
     [items[i] EXCEPT !.createdAt = NewDate(@), !.deadline = NewDate(@)]]

\* what localStorage holds under a key: nothing, or a string, which is the
\* JSON of an array of tasks ("tasks"), of an array of objects that are not
\* tasks ("notTasks"), of a value that is not an array ("notArray"), or no
\* JSON at all ("unparsable")
NoEntry == [has |-> FALSE, form |-> "none", items |-> <<>>]
Entry(list) == [has |-> TRUE, form |-> "tasks", items |-> Stringify(list)]
Corrupt(form) == [has |-> TRUE, form |-> form, items |-> <<>>]

\* what the map over the parsed array makes of an object without the fields
\* of a task: { ...task, createdAt: new Date(undefined), deadline: new Date(undefined) }
MalformedTask ==
  [id |-> <<"none", 0>>, userId |-> Undefined, title |-> Undefined, status |-> Undefined,
   priority |-> Undefined, deadline |-> InvalidDate, createdAt |-> InvalidDate,
   category |-> Undefined]

\* JSON.parse(storedTasks) and parsed.map(...) inside try: ok is FALSE when
\* one of them throws
LoadStored(e) ==
  CASE e.form = "tasks" -> [ok |-> TRUE, list |-> ParseStored(e.items)]
    [] e.form = "notTasks" -> [ok |-> TRUE, list |-> <<MalformedTask>>]
    [] OTHER -> [ok |-> FALSE, list |-> <<>>]

\* localStorage.setItem inside try { } catch { }: a failure is ignored
TrySetItem(c, u, list) == IF storageOk THEN [c EXCEPT ![u] = Entry(list)] ELSE c

\* the save effect calls localStorage.setItem outside any try: it throws
\* out of the effect when the storage refuses the write
SaveThrows(u) == u # NoUser /\ ~storageOk

\* the effect that saves the list: it writes under the userId of the render
SaveEffect(c, u, list) == IF u # NoUser /\ storageOk THEN [c EXCEPT ![u] = Entry(list)] ELSE c

\* query(tasksCol, orderBy('createdAt', 'asc')): by creation time, then by document id
DocBefore(a, b) ==
  \/ ToDate(a.createdAt) < ToDate(b.createdAt)
  \/ ToDate(a.createdAt) = ToDate(b.createdAt) /\ a.id[2] < b.id[2]

RECURSIVE QueryDocs(_)
QueryDocs(docs) ==
  IF docs = {} THEN <<>>
  ELSE LET first == CHOOSE d \in docs : \A e \in docs \ {d} : DocBefore(d, e)
       IN  <<first>> \o QueryDocs(docs \ {first})

\* snapshot.docs.map(...) in the listener of user u
SnapshotTasks(docs, u) ==
  LET q == QueryDocs(docs)
  IN  [i \in 1..Len(q) |->
         TaskOf(q[i].id, u, q[i].title, q[i].status, q[i].priority, ToDate(q[i].deadline),
                ToDate(q[i].createdAt), q[i].category)]

\* variant: the snapshot is merged into the list, local-only tasks are kept
OnSnapshotTasks_keepLocal(prev, docs) ==
  sortTasks(docs \o SelectSeq(prev, LAMBDA t : t.id[1] = "local"))

\* variant: the snapshot is applied as a patch that only adds documents
OnSnapshotTasks_addOnly(prev, docs) ==
  sortTasks(prev \o SelectSeq(docs, LAMBDA t : \A i \in 1..Len(prev) : prev[i].id # t.id))

\* variant: the snapshot only refreshes the tasks the list already holds
OnSnapshotTasks_refreshOnly(prev, docs) ==
  sortTasks(SelectSeq(docs, LAMBDA t : \E i \in 1..Len(prev) : prev[i].id = t.id))

\* what the snapshot callback hands to setTasks
OnSnapshotTasks(prev, docs) == sortTasks(docs)

\* ---------------------------------------------------------- inputs
\* TaskFormData handed to addTask
AddInputs == { [title |-> "task", deadline |-> 0, priority |-> "high", category |-> "work"] }

\* Partial<Task> handed to updateTask
Patches == { [priority |-> "medium", deadline |-> MaxDate] }

Range(seq) == { seq[i] : i \in 1..Len(seq) }

\* ids a caller can name: those on display and those of documents created so far
TargetIds == { t.id : t \in Range(tasks) } \cup { <<"doc", n>> : n \in 1..(nextId - 1) }

\* { ...task, ...updates }
ApplyPatch(task, updates) ==
  [f \in (DOMAIN task) \cup (DOMAIN updates) |->
     IF f \in DOMAIN updates THEN updates[f] ELSE task[f]]

\* const payload = { ...updates }; a deadline goes through Timestamp.fromDate
Payload(updates) ==
  [f \in DOMAIN updates |-> IF f = "deadline" THEN FromDate(updates[f]) ELSE updates[f]]

\* updateDoc stores a Date of the payload as a Timestamp
Stored(payload) ==
  [f \in DOMAIN payload |-> IF f = "createdAt" THEN FromDate(payload[f]) ELSE payload[f]]

Flip(status) == IF status = "pending" THEN "completed" ELSE "pending"

Remove(seq, i) == SubSeq(seq, 1, i - 1) \o SubSeq(seq, i + 1, Len(seq))

\* ------------------------------------- filterTasks, filteredTasks, stats
\* the length of a calendar day, in the unit of the clock
DayMs == 2

\* new Date(now.getFullYear(), now.getMonth(), now.getDate()): local midnight
StartOfToday(t) == t - (t % DayMs)

\* tomorrow.setDate(tomorrow.getDate() + 1)
StartOfTomorrow(t) == StartOfToday(t) + DayMs

FilterTypes == {"all", "completed", "pending", "high-priority", "due-today", "overdue"}

\* if (categoryFilter): null and the empty string are falsy
Truthy(c) == c \notin {Null, Undefined, ""}

\* variant: the high-priority filter does not look at the status, and the
\* pending filter keeps every task
filterTasks_anyStatus(list, f, c) ==
  LET today == StartOfToday(now)
      tomorrow == StartOfTomorrow(now)
      filtered == IF Truthy(c) THEN SelectSeq(list, LAMBDA task : task.category = c) ELSE list
  IN  CASE f = "completed" -> SelectSeq(filtered, LAMBDA task : task.status = "completed")
        [] f = "pending" -> filtered
        [] f = "high-priority" -> SelectSeq(filtered, LAMBDA task : task.priority = "high")
        [] f = "due-today" ->
             SelectSeq(filtered, LAMBDA task :
               task.status = "pending" /\ task.deadline >= today /\ task.deadline < tomorrow)
        [] f = "overdue" ->
             SelectSeq(filtered, LAMBDA task : task.status = "pending" /\ task.deadline < today)
        [] OTHER -> filtered

\* variant: the date filters compare with the current instant and include the
\* start of tomorrow
filterTasks_nowBoundary(list, f, c) ==
  LET today == StartOfToday(now)
      tomorrow == StartOfTomorrow(now)
      filtered == IF Truthy(c) THEN SelectSeq(list, LAMBDA task : task.category = c) ELSE list
  IN  CASE f = "completed" -> SelectSeq(filtered, LAMBDA task : task.status = "completed")
        [] f = "pending" -> SelectSeq(filtered, LAMBDA task : task.status = "pending")
        [] f = "high-priority" ->
             SelectSeq(filtered, LAMBDA task : task.priority = "high" /\ task.status = "pending")
        [] f = "due-today" ->
             SelectSeq(filtered, LAMBDA task :
               task.status = "pending" /\ task.deadline >= now /\ task.deadline <= tomorrow)
        [] f = "overdue" ->
             SelectSeq(filtered, LAMBDA task : task.status = "pending" /\ task.deadline < now)
        [] OTHER -> filtered

\* filterTasks(tasks, filter, categoryFilter); it reads the clock itself
filterTasks(list, f, c) ==
  LET today == StartOfToday(now)
      tomorrow == StartOfTomorrow(now)
      filtered == IF Truthy(c) THEN SelectSeq(list, LAMBDA task : task.category = c) ELSE list
  IN  CASE f = "completed" -> SelectSeq(filtered, LAMBDA task : task.status = "completed")
        [] f = "pending" -> SelectSeq(filtered, LAMBDA task : task.status = "pending")
        [] f = "high-priority" ->
             SelectSeq(filtered, LAMBDA task : task.priority = "high" /\ task.status = "pending")
        [] f = "due-today" ->
             SelectSeq(filtered, LAMBDA task :
               task.status = "pending" /\ task.deadline >= today /\ task.deadline < tomorrow)
        [] f = "overdue" ->
             SelectSeq(filtered, LAMBDA task : task.status = "pending" /\ task.deadline < today)
        [] OTHER -> filtered

\* variant: the filtered list is displayed as filterTasks returns it
filteredTasks_unsorted == filterTasks(tasks, filter, categoryFilter)

\* useMemo(() => sortTasks(filterTasks(tasks, filter, categoryFilter)))
filteredTasks == sortTasks(filterTasks(tasks, filter, categoryFilter))

\* variant: overdue counts every task with a deadline before today
getTaskStats_overdueAnyStatus ==
  LET today == StartOfToday(now)
  IN  [total |-> Len(tasks),
       completed |-> Len(SelectSeq(tasks, LAMBDA t : t.status = "completed")),
       pending |-> Len(SelectSeq(tasks, LAMBDA t : t.status = "pending")),
       overdue |-> Len(SelectSeq(tasks, LAMBDA t : t.deadline < today))]

\* variant: the counts are taken over the displayed view
getTaskStats_overView ==
  LET today == StartOfToday(now)
      view == filteredTasks
  IN  [total |-> Len(view),
       completed |-> Len(SelectSeq(view, LAMBDA t : t.status = "completed")),
       pending |-> Len(SelectSeq(view, LAMBDA t : t.status = "pending")),
       overdue |-> Len(SelectSeq(view, LAMBDA t : t.status = "pending" /\ t.deadline < today))]

\* getTaskStats(), over the list of the render
getTaskStats ==
  LET today == StartOfToday(now)
  IN  [total |-> Len(tasks),
       completed |-> Len(SelectSeq(tasks, LAMBDA t : t.status = "completed")),
       pending |-> Len(SelectSeq(tasks, LAMBDA t : t.status = "pending")),
       overdue |-> Len(SelectSeq(tasks, LAMBDA t : t.status = "pending" /\ t.deadline < today))]

\* ------------------------------------------------------------ Init
HookInit ==
  /\ storageOk = TRUE
  /\ escaped = FALSE
  /\ userId = NoUser
  /\ tasks = <<>>
  /\ listeners = {}
  /\ unsub = NoUser
  /\ remote = [u \in Users |-> {}]
  /\ cache = [u \in Users |-> NoEntry]
  /\ inflight = <<>>
  /\ nextId = 1
  /\ now = 0
  /\ filter = "all"
  /\ categoryFilter = Null
  /\ origin = "none"
  /\ persisted = [u \in Users |-> <<>>]

Init == HookInit /\ SortIdle

\* ------------------------------------------- the subscription effect
\* variant: the effect returns no cleanup
Cleanup_none(ls, un) == ls

\* the cleanup of the previous run of the effect: () => unsub()
Cleanup(ls, un) == IF un # NoUser THEN ls \ {un} ELSE ls

\* userId changes to null: cleanup, setTasks([]), nothing is saved
SignOut ==
  /\ userId # NoUser
  /\ userId' = NoUser
  /\ listeners' = Cleanup(listeners, unsub)
  /\ unsub' = NoUser
  /\ tasks' = <<>>
  /\ cache' = SaveEffect(SaveEffect(cache, NoUser, tasks), NoUser, tasks')
  /\ origin' = "none"
  /\ UNCHANGED <<remote, inflight, nextId, now, persisted, sortVars, viewVars, faultVars>>

\* userId changes to u (from null or from another user) and onSnapshot attaches
\* the listener; the save effect of the same commit writes the list as it is
Subscribe(u) ==
  /\ u \in Users /\ u # userId
  /\ userId' = u
  /\ listeners' = Cleanup(listeners, unsub) \cup {u}
  /\ unsub' = u
  /\ tasks' = tasks
  /\ cache' = SaveEffect(cache, u, tasks)
  /\ origin' = "none"
  /\ escaped' = (escaped \/ SaveThrows(u))
  /\ UNCHANGED <<remote, inflight, nextId, now, persisted, sortVars, viewVars, storageOk>>

\* userId changes to u and subscribing throws: the catch branch loads the
\* stored list, unsorted, and leaves the list alone when nothing is stored
SubscribeThrows(u) ==
  /\ u \in Users /\ u # userId
  /\ userId' = u
  /\ listeners' = Cleanup(listeners, unsub)
  /\ unsub' = NoUser
  /\ tasks' = IF ~cache[u].has THEN tasks
              ELSE IF LoadStored(cache[u]).ok THEN LoadStored(cache[u]).list
              ELSE <<>>
  /\ cache' = SaveEffect(SaveEffect(cache, u, tasks), u, tasks')
  /\ origin' = "none"
  /\ escaped' = (escaped \/ SaveThrows(u))
  /\ UNCHANGED <<remote, inflight, nextId, now, persisted, sortVars, viewVars, storageOk>>

\* the success callback of onSnapshot, in the listener of user u
Snapshot(u) ==
  /\ u \in listeners
  /\ LET docs == SnapshotTasks(remote[u], u)
     IN  /\ tasks' = OnSnapshotTasks(tasks, docs)
         /\ cache' = SaveEffect(TrySetItem(cache, u, docs), userId, tasks')
         /\ persisted' = [persisted EXCEPT ![u] = docs]
  /\ inflight' = [i \in 1..Len(inflight) |-> [inflight[i] EXCEPT !.snapSeen = TRUE]]
  /\ origin' = IF origin = "edit" THEN "replaced" ELSE "snapshot"
  /\ escaped' = (escaped \/ SaveThrows(userId))
  /\ UNCHANGED <<userId, listeners, unsub, remote, nextId, now, sortVars, viewVars, storageOk>>

\* the error callback of onSnapshot, in the listener of user u; Firestore
\* detaches a listener that failed
SnapshotError(u, isPermissionError) ==
  /\ u \in listeners
  /\ listeners' = listeners \ {u}
  /\ tasks' = IF ~isPermissionError THEN tasks
              ELSE IF cache[u].has /\ LoadStored(cache[u]).ok
                   THEN sortTasks(LoadStored(cache[u]).list)
              ELSE <<>>
  /\ cache' = IF isPermissionError THEN SaveEffect(cache, userId, tasks') ELSE cache
  /\ origin' = IF isPermissionError THEN "none" ELSE origin
  /\ escaped' = (escaped \/ (isPermissionError /\ SaveThrows(userId)))
  /\ UNCHANGED <<userId, unsub, remote, inflight, nextId, now, persisted, sortVars, viewVars, storageOk>>

\* ------------------------------------------------------- mutations
\* bounds: auto-generated document ids, and mutations in flight at once
MaxIds == 1
MaxInflight == 1

Mutation(op, u, id, arg) == [op |-> op, user |-> u, id |-> id, arg |-> arg, snapSeen |-> FALSE]

\* addTask(taskData) up to the await: addDoc picks the document id
addTask(taskData) ==
  /\ userId # NoUser
  /\ Len(inflight) < MaxInflight /\ nextId <= MaxIds
  /\ inflight' = Append(inflight, Mutation("add", userId, <<"doc", nextId>>, taskData))
  /\ nextId' = nextId + 1
  /\ UNCHANGED <<userId, tasks, listeners, unsub, remote, cache, now, origin, persisted, sortVars, viewVars, faultVars>>

\* updateTask(id, updates) up to the await
updateTask(id, updates) ==
  /\ userId # NoUser
  /\ Len(inflight) < MaxInflight
  /\ inflight' = Append(inflight, Mutation("update", userId, id, updates))
  /\ UNCHANGED <<userId, tasks, listeners, unsub, remote, cache, nextId, now, origin, persisted, sortVars, viewVars, faultVars>>

\* deleteTask(id) up to the await
deleteTask(id) ==
  /\ userId # NoUser
  /\ Len(inflight) < MaxInflight
  /\ inflight' = Append(inflight, Mutation("delete", userId, id, [status |-> "pending"]))
  /\ UNCHANGED <<userId, tasks, listeners, unsub, remote, cache, nextId, now, origin, persisted, sortVars, viewVars, faultVars>>

\* toggleTaskStatus(id) up to the await: the new status is computed from the
\* list of the render that built the callback; an id not in the list returns
toggleTaskStatus(id) ==
  /\ userId # NoUser
  /\ Len(inflight) < MaxInflight
  /\ \E i \in 1..Len(tasks) : tasks[i].id = id
  /\ LET existing == tasks[CHOOSE i \in 1..Len(tasks) :
                              tasks[i].id = id /\ \A j \in 1..(i - 1) : tasks[j].id # id]
     IN  inflight' = Append(inflight,
                            Mutation("toggle", userId, id, [status |-> Flip(existing.status)]))
  /\ UNCHANGED <<userId, tasks, listeners, unsub, remote, cache, nextId, now, origin, persisted, sortVars, viewVars, faultVars>>

\* what a settled write leaves in users/<m.user>/tasks
RemoteAfter(docs, m) ==
  CASE m.op = "add" ->
         docs \cup { [id |-> m.id, title |-> m.arg.title, createdAt |-> FromDate(now),
                      deadline |-> FromDate(m.arg.deadline), priority |-> m.arg.priority,
                      status |-> "pending", category |-> OrNull(m.arg.category)] }
    [] m.op = "delete" -> { d \in docs : d.id # m.id }
    [] OTHER -> { IF d.id = m.id THEN ApplyPatch(d, Stored(Payload(m.arg))) ELSE d : d \in docs }

\* updateDoc rejects when the document does not exist
CanSucceed(m) ==
  m.op \in {"update", "toggle"} => \E d \in remote[m.user] : d.id = m.id

\* variant: the local-only task replaces the list instead of joining it
Fallback_addAlone(prev, m) ==
  CASE m.op = "add" ->
         sortTasks(<<TaskOf(<<"local", now>>, m.user, m.arg.title, "pending",
                            m.arg.priority, m.arg.deadline, now, m.arg.category)>>)
    [] m.op = "update" ->
         sortTasks([i \in 1..Len(prev) |->
                      IF prev[i].id = m.id THEN ApplyPatch(prev[i], m.arg) ELSE prev[i]])
    [] m.op = "delete" ->
         SelectSeq(prev, LAMBDA t : t.id # m.id)
    [] OTHER ->
         sortTasks([i \in 1..Len(prev) |->
                      IF prev[i].id = m.id
                      THEN [prev[i] EXCEPT !.status = Flip(@)]
                      ELSE prev[i]])

\* variant: the patch of updateTask is applied to every task of the list
Fallback_patchAll(prev, m) ==
  CASE m.op = "add" ->
         sortTasks(Append(prev, TaskOf(<<"local", now>>, m.user, m.arg.title, "pending",
                                       m.arg.priority, m.arg.deadline, now, m.arg.category)))
    [] m.op = "update" ->
         sortTasks([i \in 1..Len(prev) |-> ApplyPatch(prev[i], m.arg)])
    [] m.op = "delete" ->
         SelectSeq(prev, LAMBDA t : t.id # m.id)
    [] OTHER ->
         sortTasks([i \in 1..Len(prev) |->
                      IF prev[i].id = m.id
                      THEN [prev[i] EXCEPT !.status = Flip(@)]
                      ELSE prev[i]])

\* the updater the catch block of the mutation hands to setTasks
Fallback(prev, m) ==
  CASE m.op = "add" ->
         sortTasks(Append(prev, TaskOf(<<"local", now>>, m.user, m.arg.title, "pending",
                                       m.arg.priority, m.arg.deadline, now, m.arg.category)))
    [] m.op = "update" ->
         sortTasks([i \in 1..Len(prev) |->
                      IF prev[i].id = m.id THEN ApplyPatch(prev[i], m.arg) ELSE prev[i]])
    [] m.op = "delete" ->
         SelectSeq(prev, LAMBDA t : t.id # m.id)
    [] OTHER ->
         sortTasks([i \in 1..Len(prev) |->
                      IF prev[i].id = m.id
                      THEN [prev[i] EXCEPT !.status = Flip(@)]
                      ELSE prev[i]])

\* variant: the local edit is applied when the write resolves, too
WriteSucceeds_optimistic(i) ==
  /\ i \in 1..Len(inflight)
  /\ CanSucceed(inflight[i])
  /\ remote' = [remote EXCEPT ![inflight[i].user] = RemoteAfter(@, inflight[i])]
  /\ tasks' = Fallback(tasks, inflight[i])
  /\ cache' = SaveEffect(cache, userId, tasks')
  /\ inflight' = Remove(inflight, i)
  /\ UNCHANGED <<userId, listeners, unsub, nextId, now, origin, persisted, sortVars, viewVars, faultVars>>

\* the awaited write of inflight[i] resolves: the list is left to the listener
WriteSucceeds(i) ==
  /\ i \in 1..Len(inflight)
  /\ CanSucceed(inflight[i])
  /\ remote' = [remote EXCEPT ![inflight[i].user] = RemoteAfter(@, inflight[i])]
  /\ inflight' = Remove(inflight, i)
  /\ UNCHANGED <<userId, tasks, listeners, unsub, cache, nextId, now, origin, persisted, sortVars, viewVars, faultVars>>

\* variant: the rejection of the write is passed on to the caller
WriteFails_rethrow(i) ==
  /\ i \in 1..Len(inflight)
  /\ inflight' = Remove(inflight, i)
  /\ escaped' = TRUE
  /\ UNCHANGED <<userId, tasks, listeners, unsub, remote, cache, nextId, now, origin, persisted,
                 sortVars, viewVars, storageOk>>

\* the awaited write of inflight[i] rejects: the catch block edits the list,
\* and the save effect stores it under the userId of the current render
WriteFails(i) ==
  /\ i \in 1..Len(inflight)
  /\ tasks' = Fallback(tasks, inflight[i])
  /\ cache' = SaveEffect(cache, userId, tasks')
  /\ inflight' = Remove(inflight, i)
  /\ origin' = IF tasks' # tasks THEN "edit" ELSE origin
  /\ escaped' = (escaped \/ SaveThrows(userId))
  /\ UNCHANGED <<userId, listeners, unsub, remote, nextId, now, persisted, sortVars, viewVars, storageOk>>

\* time passes
Tick ==
  /\ now < MaxDate
  /\ now' = now + 1
  /\ UNCHANGED <<userId, tasks, listeners, unsub, remote, cache, inflight, nextId, origin, persisted, sortVars, viewVars, faultVars>>

\* the page is loaded again: a new session over the same localStorage and
\* the same Firestore
Reload ==
  /\ userId' = NoUser
  /\ tasks' = <<>>
  /\ listeners' = {}
  /\ unsub' = NoUser
  /\ inflight' = <<>>
  /\ origin' = "none"
  /\ escaped' = FALSE
  /\ UNCHANGED <<remote, cache, nextId, now, persisted, sortVars, viewVars, storageOk>>

Next ==
  \/ SignOut
  \/ \E u \in Users : Subscribe(u)
  \/ \E u \in Users : SubscribeThrows(u)
  \/ \E u \in Users : Snapshot(u)
  \/ \E u \in Users, p \in BOOLEAN : SnapshotError(u, p)
  \/ \E d \in AddInputs : addTask(d)
  \/ \E id \in TargetIds, p \in Patches : updateTask(id, p)
  \/ \E id \in TargetIds : deleteTask(id)
  \/ \E id \in TargetIds : toggleTaskStatus(id)
  \/ \E i \in 1..MaxInflight : WriteSucceeds(i)
  \/ \E i \in 1..MaxInflight : WriteFails(i)
  \/ Tick
  \/ Reload

Spec == Init /\ [][Next]_vars

\* ------------------------------------------------------- SortSpec
SortInit ==
  /\ HookInit
  /\ \E n \in 0..MaxLen :
       \E f \in [1..n -> SortFields], p \in Permutations(n) :
         /\ sortIn = ArrayOf(f)
         /\ sortIn2 = Permute(ArrayOf(f), p)
  /\ sortOut = <<>> /\ sortOut2 = <<>>
  /\ sortPc = "call"

SortNext == SortTasksCall /\ UNCHANGED <<hookVars, viewVars, faultVars, histVars>>

SortSpec == SortInit /\ [][SortNext]_vars

\* ------------------------------------------------------- ViewSpec
\* the values setCategoryFilter is called with
CategoryFilters == {Null, "work", "Work", ""}

\* the fields the filters read, one tuple per task
ViewPriorities == {"high", "medium"}
ViewDeadlines == (DayMs - 1)..(2 * DayMs)
ViewCategories == {"work", Undefined}
ViewFields == Statuses \X ViewPriorities \X ViewDeadlines \X ViewCategories

\* the clock of ViewSpec: an instant inside the second day
ViewNow == DayMs + 1

\* the array of the tasks with the fields f[1], f[2], ...
ViewArrayOf(f) ==
  [i \in DOMAIN f |->
     TaskOf(<<"doc", i>>, "u1", "task", f[i][1], f[i][2], f[i][3], 0, f[i][4])]

setFilter(f) ==
  /\ filter' = f
  /\ UNCHANGED <<hookVars, categoryFilter, faultVars, histVars, sortVars>>

setCategoryFilter(c) ==
  /\ categoryFilter' = c
  /\ UNCHANGED <<hookVars, filter, faultVars, histVars, sortVars>>

\* a new session; localStorage holds under tasks_u1 an array a previous
\* session left there, in any order
ViewInit ==
  /\ storageOk = TRUE
  /\ escaped = FALSE
  /\ userId = NoUser
  /\ tasks = <<>>
  /\ listeners = {}
  /\ unsub = NoUser
  /\ remote = [u \in Users |-> {}]
  /\ \E n \in 0..MaxLen :
       \E f \in [1..n -> ViewFields] :
         cache = [u \in Users |-> IF u = "u1" THEN Entry(ViewArrayOf(f)) ELSE NoEntry]
  /\ inflight = <<>>
  /\ nextId = 1
  /\ now = ViewNow
  /\ filter = "all"
  /\ categoryFilter = Null
  /\ origin = "none"
  /\ persisted = [u \in Users |-> <<>>]
  /\ SortIdle

\* u1 signs in while subscribing throws, which loads the stored array as it
\* is; the filters change
ViewNext ==
  \/ \E u \in {"u1"} : SubscribeThrows(u)
  \/ \E f \in FilterTypes : setFilter(f)
  \/ \E c \in CategoryFilters : setCategoryFilter(c)

ViewSpec == ViewInit /\ [][ViewNext]_vars

\* ------------------------------------------------------- EditSpec
\* TaskFormData without a title, as a caller other than the form can pass it
InvalidInputs == { [title |-> "", deadline |-> 0, priority |-> "high", category |-> "work"] }

\* bound: documents that exist when the session starts
MaxSeeds == 1

\* the fields of a document that exists when the session starts
EditPriorities == {"low", "high"}
EditFields == Statuses \X EditPriorities \X {0}

\* the documents with the fields f[1], f[2], ...; their ids lie below the ids
\* addDoc generates in the session
SeedDocs(f) ==
  { [id |-> <<"doc", 1 - i>>, title |-> "old", createdAt |-> FromDate(0),
     deadline |-> FromDate(f[i][3]), priority |-> f[i][2], status |-> f[i][1],
     category |-> "work"] : i \in DOMAIN f }

\* u1 is signed in and the first snapshot has delivered the documents
EditInit ==
  /\ storageOk = TRUE
  /\ escaped = FALSE
  /\ userId = "u1"
  /\ listeners = {"u1"}
  /\ unsub = "u1"
  /\ \E n \in 0..MaxSeeds :
       \E f \in [1..n -> EditFields] :
         /\ remote = [u \in Users |-> IF u = "u1" THEN SeedDocs(f) ELSE {}]
         /\ tasks = OnSnapshotTasks(<<>>, SnapshotTasks(SeedDocs(f), "u1"))
         /\ persisted = [u \in Users |-> IF u = "u1" THEN SnapshotTasks(SeedDocs(f), "u1") ELSE <<>>]
  /\ cache = SaveEffect([u \in Users |-> NoEntry], "u1", tasks)
  /\ inflight = <<>>
  /\ nextId = 1
  /\ now = 0
  /\ filter = "all"
  /\ categoryFilter = Null
  /\ origin = "snapshot"
  /\ SortIdle

EditNext ==
  \/ \E d \in AddInputs \cup InvalidInputs : addTask(d)
  \/ \E id \in TargetIds, p \in Patches : updateTask(id, p)
  \/ \E id \in TargetIds : deleteTask(id)
  \/ \E id \in TargetIds : toggleTaskStatus(id)
  \/ \E i \in 1..MaxInflight : WriteSucceeds(i)
  \/ \E i \in 1..MaxInflight : WriteFails(i)
  \/ \E u \in {"u1"} : Snapshot(u)
  \/ Tick

EditSpec == EditInit /\ [][EditNext]_vars

\* ------------------------------------------------------- ApiSpec
\* Partial<Task> with a createdAt, as a caller of updateTask can pass it
CreatedAtPatches == { [createdAt |-> MaxDate] }

\* u1 is signed in, the collection is empty and the first snapshot has been
\* delivered; addDoc has the ids 0..MaxIds to give out
ApiInit ==
  /\ storageOk = TRUE
  /\ escaped = FALSE
  /\ userId = "u1"
  /\ listeners = {"u1"}
  /\ unsub = "u1"
  /\ remote = [u \in Users |-> {}]
  /\ tasks = <<>>
  /\ persisted = [u \in Users |-> <<>>]
  /\ cache = SaveEffect([u \in Users |-> NoEntry], "u1", tasks)
  /\ inflight = <<>>
  /\ nextId = 0
  /\ now = 0
  /\ filter = "all"
  /\ categoryFilter = Null
  /\ origin = "snapshot"
  /\ SortIdle

ApiNext ==
  \/ \E d \in AddInputs : addTask(d)
  \/ \E id \in TargetIds, p \in Patches \cup CreatedAtPatches : updateTask(id, p)
  \/ \E i \in 1..MaxInflight : WriteSucceeds(i)
  \/ \E i \in 1..MaxInflight : WriteFails(i)
  \/ \E u \in {"u1"} : Snapshot(u)
  \/ Tick

ApiSpec == ApiInit /\ [][ApiNext]_vars

\* ------------------------------------------------------- FaultSpec
\* the kinds of string under tasks_<u> that are not the JSON of a task array
CorruptForms == {"unparsable", "notArray", "notTasks"}

\* what a previous session or another program left under tasks_u1
StoredEntries(list) == {NoEntry, Entry(list)} \cup { Corrupt(form) : form \in CorruptForms }

\* a new session; the collection of u1 holds documents, localStorage holds
\* anything under tasks_u1, and it accepts writes or refuses them
FaultInit ==
  /\ storageOk \in BOOLEAN
  /\ escaped = FALSE
  /\ userId = NoUser
  /\ tasks = <<>>
  /\ listeners = {}
  /\ unsub = NoUser
  /\ \E n \in 0..MaxSeeds :
       \E f \in [1..n -> EditFields] :
         /\ remote = [u \in Users |-> IF u = "u1" THEN SeedDocs(f) ELSE {}]
         /\ \E e \in StoredEntries(SnapshotTasks(SeedDocs(f), "u1")) :
              cache = [u \in Users |-> IF u = "u1" THEN e ELSE NoEntry]
  /\ inflight = <<>>
  /\ nextId = 1
  /\ now = 0
  /\ filter = "all"
  /\ categoryFilter = Null
  /\ origin = "none"
  /\ persisted = [u \in Users |-> <<>>]
  /\ SortIdle

\* the user changes, snapshots and listener errors arrive; an error thrown
\* out of an effect unmounts the application (it has no error boundary),
\* and only loading the page again starts a new session
FaultNext ==
  \/ ~escaped /\ SignOut
  \/ ~escaped /\ \E u \in Users : Subscribe(u)
  \/ ~escaped /\ \E u \in Users : SubscribeThrows(u)
  \/ ~escaped /\ \E u \in Users : Snapshot(u)
  \/ ~escaped /\ \E u \in Users, p \in BOOLEAN : SnapshotError(u, p)
  \/ Reload

FaultSpec == FaultInit /\ [][FaultNext]_vars

\* ================================================== properties: sortTasks
\* x stands before y in the array out
Before(out, x, y) == \E i, j \in 1..Len(out) : i < j /\ out[i] = x /\ out[j] = y

\* the priority order of the specification: high > medium > low
Weight(p) == CASE p = "high" -> 3 [] p = "medium" -> 2 [] p = "low" -> 1

\* the keys the sort contract orders by
SortKey(t) ==
  IF t.status = "pending"
  THEN <<"pending", Weight(t.priority), t.deadline, t.createdAt>>
  ELSE <<"completed", 0, 0, t.createdAt>>

NoTies(arr) == \A i, j \in 1..Len(arr) : i # j => SortKey(arr[i]) # SortKey(arr[j])

\* C7: in the output of sortTasks every pending task of the input stands
\* before every completed task of the input, whatever their priority,
\* deadline and createdAt.
C7_StatusPrecedence ==
  sortPc = "done" =>
    /\ \A p, c \in 1..Len(sortIn) :
         (sortIn[p].status = "pending" /\ sortIn[c].status = "completed")
           => Before(sortOut, sortIn[p], sortIn[c])
    /\ \A i, j \in 1..Len(sortOut) :
         (i < j) => ~(sortOut[i].status = "completed" /\ sortOut[j].status = "pending")

\* a completed high-priority task handed in ahead of a pending low-priority
\* task with a later deadline comes out behind it
C7_Witness ==
  /\ sortPc = "done" /\ Len(sortIn) = 2
  /\ sortIn[1].status = "completed" /\ sortIn[1].priority = "high" /\ sortIn[1].deadline = 0
  /\ sortIn[2].status = "pending" /\ sortIn[2].priority = "low" /\ sortIn[2].deadline = MaxDate
  /\ sortOut = <<sortIn[2], sortIn[1]>>

\* C8: among the pending tasks of the output the higher priority weight comes
\* first; with equal priority the earlier deadline; with equal priority and
\* deadline the earlier createdAt.
C8_PendingOrder ==
  sortPc = "done" =>
    \A x, y \in 1..Len(sortIn) :
      LET a == sortIn[x]
          b == sortIn[y]
      IN  (a.status = "pending" /\ b.status = "pending") =>
            /\ Weight(a.priority) > Weight(b.priority) => Before(sortOut, a, b)
            /\ (a.priority = b.priority /\ a.deadline < b.deadline) => Before(sortOut, a, b)
            /\ (a.priority = b.priority /\ a.deadline = b.deadline /\ a.createdAt < b.createdAt)
                 => Before(sortOut, a, b)

\* two pending tasks of equal priority and deadline, handed in newest first,
\* come out oldest first
C8_Witness ==
  /\ sortPc = "done" /\ Len(sortIn) = 2
  /\ sortIn[1].status = "pending" /\ sortIn[2].status = "pending"
  /\ sortIn[1].priority = sortIn[2].priority /\ sortIn[1].deadline = sortIn[2].deadline
  /\ sortIn[1].createdAt > sortIn[2].createdAt
  /\ sortOut = <<sortIn[2], sortIn[1]>>

C10_Original ==
  [][(sortPc = "call" /\ sortPc' = "done") =>
       /\ sortOut2' = sortOut'
       /\ sortIn' = sortIn /\ sortIn2' = sortIn2]_vars

\* C10 amended: two arrays holding the same multiset of tasks give outputs
\* with the same sort keys at every position, identical when no two tasks of
\* the input have the same keys; tasks with the same keys keep the order of
\* the input array; and sortTasks does not modify its argument.
C10_DeterministicUpToTies ==
  [][(sortPc = "call" /\ sortPc' = "done") =>
       /\ Len(sortOut') = Len(sortIn) /\ Len(sortOut2') = Len(sortIn)
       /\ \A i \in 1..Len(sortIn) : SortKey(sortOut'[i]) = SortKey(sortOut2'[i])
       /\ NoTies(sortIn) => sortOut2' = sortOut'
       /\ \A i, j \in 1..Len(sortIn) :
            (i < j /\ SortKey(sortIn[i]) = SortKey(sortIn[j]))
              => Before(sortOut', sortIn[i], sortIn[j])
       /\ sortIn' = sortIn /\ sortIn2' = sortIn2]_vars

\* two arrays in opposite orders, no two tasks with the same keys, one output
C10_Witness ==
  /\ sortPc = "done" /\ Len(sortIn) = 2
  /\ sortIn2 = <<sortIn[2], sortIn[1]>>
  /\ NoTies(sortIn)
  /\ sortOut = sortOut2 /\ sortOut = sortIn2

\* how often x occurs in the array arr
Count(arr, x) == Cardinality({ i \in 1..Len(arr) : arr[i] = x })

\* C11: sortTasks is idempotent: sorting the output of sortTasks again gives
\* the same sequence, and the output of sortTasks is a permutation of its
\* input (the same tasks, each as often as in the input).
C11_Idempotent ==
  sortPc = "done" =>
    /\ sortTasks(sortOut) = sortOut
    /\ sortTasks(sortOut2) = sortOut2
    /\ Len(sortOut) = Len(sortIn)
    /\ \A i \in 1..Len(sortIn) : Count(sortOut, sortIn[i]) = Count(sortIn, sortIn[i])

\* an array that was out of order has been sorted into another sequence, and
\* sorting that sequence again leaves it as it is
C11_Witness ==
  /\ sortPc = "done" /\ Len(sortIn) = 2
  /\ sortOut = <<sortIn[2], sortIn[1]>>
  /\ sortOut # sortIn
  /\ sortTasks(sortOut) = sortOut

\* ====================================== properties: filters, view, stats
\* the tasks of list that satisfy P, in the order of list
Keep(list, P(_)) == SelectSeq(list, P)

IsPending(t) == t.status = "pending"
IsCompleted(t) == t.status = "completed"
IsPendingHigh(t) == t.status = "pending" /\ t.priority = "high"
IsDueToday(t) ==
  t.status = "pending" /\ StartOfToday(now) <= t.deadline /\ t.deadline < StartOfTomorrow(now)
IsOverdue(t) == t.status = "pending" /\ t.deadline < StartOfToday(now)

\* C12: with a null category, filterTasks returns all tasks for 'all', the
\* completed tasks for 'completed', the pending tasks for 'pending', and the
\* pending tasks of priority high for 'high-priority'.
C12_StatusFilters ==
  /\ filterTasks(tasks, "all", Null) = tasks
  /\ filterTasks(tasks, "completed", Null) = Keep(tasks, IsCompleted)
  /\ filterTasks(tasks, "pending", Null) = Keep(tasks, IsPending)
  /\ filterTasks(tasks, "high-priority", Null) = Keep(tasks, IsPendingHigh)

\* the list holds a completed and a pending task of priority high, and the
\* high-priority view shows the pending one only
C12_Witness ==
  /\ Len(tasks) = 2
  /\ tasks[1].status = "completed" /\ tasks[1].priority = "high"
  /\ tasks[2].status = "pending" /\ tasks[2].priority = "high"
  /\ filter = "high-priority" /\ categoryFilter = Null
  /\ filteredTasks = <<tasks[2]>>

\* C13: with a null category, 'due-today' returns the pending tasks with
\* start_of_today <= deadline < start_of_tomorrow and 'overdue' the pending
\* tasks with deadline < start_of_today: a pending task due exactly at
\* start_of_today is due today and not overdue, one due exactly at
\* start_of_tomorrow is in neither, a completed task is in neither.
C13_DateFilters ==
  /\ filterTasks(tasks, "due-today", Null) = Keep(tasks, IsDueToday)
  /\ filterTasks(tasks, "overdue", Null) = Keep(tasks, IsOverdue)
  /\ \A i \in 1..Len(tasks) :
       LET t == tasks[i]
           dueToday == Range(filterTasks(tasks, "due-today", Null))
           overdue == Range(filterTasks(tasks, "overdue", Null))
       IN  /\ (t.status = "pending" /\ t.deadline = StartOfToday(now))
                => (t \in dueToday /\ t \notin overdue)
           /\ (t.status = "pending" /\ t.deadline = StartOfTomorrow(now))
                => (t \notin dueToday /\ t \notin overdue)
           /\ t.status = "completed" => (t \notin dueToday /\ t \notin overdue)

\* a pending task due at the start of today and one due at the start of
\* tomorrow: the due-today view shows the first only, and none is overdue
C13_Witness ==
  /\ Len(tasks) = 2
  /\ tasks[1].status = "pending" /\ tasks[1].deadline = StartOfTomorrow(now)
  /\ tasks[2].status = "pending" /\ tasks[2].deadline = StartOfToday(now)
  /\ now > StartOfToday(now)
  /\ filter = "due-today" /\ categoryFilter = Null
  /\ filteredTasks = <<tasks[2]>>
  /\ filterTasks(tasks, "overdue", Null) = <<>>

\* C14: with a non-null categoryFilter c, the empty string included,
\* filterTasks keeps only the tasks whose category equals c, before the
\* status/type filter is applied; a null categoryFilter removes no task.
C14_CategoryExact ==
  filterTasks(tasks, filter, categoryFilter) =
    filterTasks(IF categoryFilter # Null
                THEN SelectSeq(tasks, LAMBDA t : t.category = categoryFilter)
                ELSE tasks,
                filter, Null)

\* the array view is in the order of the comparator
Sorted(view) == \A i, j \in 1..Len(view) : i < j => compare(view[i], view[j]) <= 0

\* C15: the displayed view filteredTasks is sortTasks(filterTasks(tasks,
\* filter, categoryFilter)): it holds exactly the tasks of the list that pass
\* the filter and the category, and it is in the order of the comparator,
\* whatever the order of the list.
C15_ViewSortedFiltered ==
  LET view == filteredTasks
      passed == filterTasks(tasks, filter, categoryFilter)
  IN  /\ view = sortTasks(passed)
      /\ Sorted(view)
      /\ Len(view) = Len(passed)
      /\ \A t \in Range(tasks) \cup Range(view) : Count(view, t) = Count(passed, t)

\* the list is out of order and both its tasks pass the filter: the view
\* shows them in the order of the comparator
C15_Witness ==
  /\ Len(tasks) = 2
  /\ compare(tasks[1], tasks[2]) > 0
  /\ filter = "pending" /\ categoryFilter = "work"
  /\ filteredTasks = <<tasks[2], tasks[1]>>

\* C16: getTaskStats returns total = completed + pending and
\* overdue <= pending, for every list.
C16_StatsConsistent ==
  LET stats == getTaskStats
  IN  /\ stats.total = stats.completed + stats.pending
      /\ stats.overdue <= stats.pending

\* a completed task and a pending task, both due before today
C16_Witness ==
  /\ Len(tasks) = 2
  /\ tasks[1].status = "completed" /\ tasks[1].deadline < StartOfToday(now)
  /\ tasks[2].status = "pending" /\ tasks[2].deadline < StartOfToday(now)
  /\ getTaskStats = [total |-> 2, completed |-> 1, pending |-> 1, overdue |-> 1]

\* C17: getTaskStats counts over the full list: total is the number of tasks
\* of the list, overdue the number of pending tasks due before start_of_today
\* (the size of the 'overdue' filter result with a null category), and a
\* change of filter or categoryFilter changes none of the four counts.
C17_StatsOverFullList ==
  /\ [](/\ getTaskStats.total = Len(tasks)
        /\ getTaskStats.completed = Len(Keep(tasks, IsCompleted))
        /\ getTaskStats.pending = Len(Keep(tasks, IsPending))
        /\ getTaskStats.overdue = Len(Keep(tasks, IsOverdue))
        /\ getTaskStats.overdue = Len(filterTasks(tasks, "overdue", Null)))
  /\ [][((\E f \in FilterTypes : setFilter(f)) \/ (\E c \in CategoryFilters : setCategoryFilter(c)))
          => getTaskStats' = getTaskStats]_vars

\* the view is narrowed to one of two tasks and the counts are those of the
\* full list
C17_Witness ==
  /\ Len(tasks) = 2
  /\ filter = "overdue" /\ categoryFilter = "work"
  /\ Len(filteredTasks) = 1
  /\ getTaskStats.total = 2 /\ getTaskStats.overdue = 2

\* ==================================================== properties: useTasks
\* the task the listener of user u builds from the document d
TaskOfDoc(d, u) ==
  TaskOf(d.id, u, d.title, d.status, d.priority, ToDate(d.deadline), ToDate(d.createdAt),
         d.category)

\* the tasks of the documents of user u
RemoteTasks(u) == { TaskOfDoc(d, u) : d \in remote[u] }

\* C1: every task of the in-memory list has the userId of the active user,
\* in every reachable state.
C1_Ownership == \A i \in 1..Len(tasks) : tasks[i].userId = userId

\* C2: with userId absent the in-memory list is empty and no listener is
\* attached, in every reachable state.
C2_SignedOutEmpty == (userId = NoUser) => (tasks = <<>> /\ listeners = {})

\* C3 as stated: a snapshot delivered after a failing mutation was started
\* decides the list, whether the fallback edit was applied before it (the
\* snapshot replaces the edit) or the failure is reported only after it (the
\* list stays the snapshot's list).
C3_Original ==
  [][/\ \A u \in Users :
          (Snapshot(u) /\ origin = "edit") => Range(tasks') = RemoteTasks(u)
     /\ \A i \in 1..Len(inflight) :
          (/\ WriteFails(i)
           /\ inflight[i].snapSeen
           /\ origin \in {"snapshot", "replaced"})
            => tasks' = tasks]_vars

\* C3 amended: a snapshot delivered after the fallback edit of a failed
\* mutation was applied replaces the list: the list holds the tasks of the
\* snapshot and nothing else, no task of the edited list is merged in.
C3_SnapshotReplacesEdit ==
  [][\A u \in Users :
       (Snapshot(u) /\ origin = "edit") =>
         /\ Range(tasks') = RemoteTasks(u)
         /\ Len(tasks') = Cardinality(remote[u])
         /\ \A t \in Range(tasks) : t \notin RemoteTasks(u) => t \notin Range(tasks')]_vars

\* a snapshot has replaced a list that held a fallback edit
C3_Witness ==
  /\ origin = "replaced"
  /\ userId # NoUser
  /\ Range(tasks) = RemoteTasks(userId)
  /\ \A i \in 1..Len(tasks) : tasks[i].id[1] = "doc"

\* C4: a snapshot delivered for the active user sets the list to exactly the
\* tasks of the snapshot, no task of the previous list surviving unless the
\* snapshot holds it, and stores the same set of tasks under that user's key.
C4_SnapshotReplacesAndPersists ==
  [][\A u \in Users :
       Snapshot(u) =>
         /\ u = userId
         /\ Range(tasks') = RemoteTasks(u)
         /\ Len(tasks') = Cardinality(remote[u])
         /\ \A t \in Range(tasks) : t \notin RemoteTasks(u) => t \notin Range(tasks')
         /\ cache'[u].has
         /\ Range(ParseStored(cache'[u].items)) = RemoteTasks(u)
         /\ Len(cache'[u].items) = Cardinality(remote[u])]_vars

\* a snapshot holding a document has set the list and the cache entry
C4_Witness ==
  /\ origin = "snapshot"
  /\ userId # NoUser
  /\ tasks # <<>>
  /\ Range(tasks) = RemoteTasks(userId)
  /\ cache[userId] = Entry(tasks)
  /\ persisted[userId] = tasks

\* C5, in the case the claim singles out: a permission error of the listener
\* of user u that arrives before any snapshot or fallback edit of the session,
\* the list still empty, sets the list to the list the last delivered snapshot
\* stored in the cache for u.
C5_Original ==
  [][\A u \in Users :
       (SnapshotError(u, TRUE) /\ origin = "none" /\ tasks = <<>>) =>
         /\ Range(tasks') = Range(persisted[u])
         /\ Len(tasks') = Len(persisted[u])]_vars

\* C6: at most one listener is attached at any time and it is the one of the
\* active user: the listener of the previous user is detached when userId
\* changes or becomes absent, so no callback of a previous user runs.
C6_OneListener ==
  /\ Cardinality(listeners) <= 1
  /\ \A u \in listeners : u = userId

\* after a direct switch from u1 to u2 only the listener of u2 is attached;
\* the list still shows what the listener of u1 delivered
C6_Witness ==
  /\ userId = "u2"
  /\ listeners = {"u2"}
  /\ tasks # <<>>
  /\ tasks[1].userId = "u1" /\ tasks[1].id[1] = "doc"

\* ================================================ properties: mutations
\* C18: a task created by addTask has status pending, in the document written
\* to the remote store and in the local-only task built when the write fails;
\* on failure the list gains exactly one task, with a placeholder id, owned by
\* the calling user, with the given title, deadline, priority and category,
\* and every other task of the list is unchanged.
C18_AddPendingAndFrame ==
  [][\A i \in 1..Len(inflight) :
       LET m == inflight[i]
       IN  /\ (WriteSucceeds(i) /\ m.op = "add") =>
                 \A d \in remote'[m.user] \ remote[m.user] : d.status = "pending"
           /\ (WriteFails(i) /\ m.op = "add") =>
                 /\ Len(tasks') = Len(tasks) + 1
                 /\ \E k \in 1..Len(tasks') :
                      /\ \A t \in Range(tasks) \cup Range(tasks') :
                           Count(Remove(tasks', k), t) = Count(tasks, t)
                      /\ tasks'[k].id[1] = "local"
                      /\ tasks'[k].userId = m.user
                      /\ tasks'[k].status = "pending"
                      /\ tasks'[k].title = m.arg.title
                      /\ tasks'[k].deadline = m.arg.deadline
                      /\ tasks'[k].priority = m.arg.priority
                      /\ tasks'[k].category = m.arg.category]_vars

\* the list holds a task of a document, completed and kept as it was, and
\* a pending local-only task
C18_Witness ==
  /\ Len(tasks) = 2
  /\ \E i, j \in 1..2 :
       /\ tasks[i].id[1] = "local" /\ tasks[i].status = "pending" /\ tasks[i].userId = "u1"
       /\ tasks[j].id[1] = "doc" /\ tasks[j].status = "completed"
       /\ \E d \in remote["u1"] : TaskOfDoc(d, "u1") = tasks[j]

\* C19: addTask called with an empty title is rejected before any I/O: no
\* remote write is attempted and no task is added to the list or the cache.
C19_InvalidRejected ==
  [][\A d \in InvalidInputs : addTask(d) => UNCHANGED <<inflight, remote, tasks, cache>>]_vars

\* the task with the fields of task replaced by those of updates
Patched(task, updates) ==
  [f \in DOMAIN task |-> IF f \in DOMAIN updates THEN updates[f] ELSE task[f]]

\* C20: when the remote write of updateTask(id, fields) fails, the list
\* changes only in the supplied fields of the task with that id: its other
\* fields and the other tasks keep their values, no task is added or removed,
\* and a call with an id that is not in the list changes nothing.
C20_UpdateFrame ==
  [][\A i \in 1..Len(inflight) :
       LET m == inflight[i]
           expected == [k \in 1..Len(tasks) |->
                          IF tasks[k].id = m.id THEN Patched(tasks[k], m.arg) ELSE tasks[k]]
       IN  (WriteFails(i) /\ m.op = "update") =>
             /\ Len(tasks') = Len(tasks)
             /\ \A t \in Range(expected) \cup Range(tasks') : Count(tasks', t) = Count(expected, t)
             /\ (\A k \in 1..Len(tasks) : tasks[k].id # m.id) => tasks' = tasks]_vars

\* of two tasks one carries the patch of a failed updateTask and the other,
\* local-only, is as addTask built it
C20_Witness ==
  /\ Len(tasks) = 2
  /\ origin = "edit"
  /\ \E i, j \in 1..2 :
       /\ tasks[i].id[1] = "doc"
       /\ tasks[i].priority = "medium" /\ tasks[i].deadline = MaxDate
       /\ tasks[i].title = "old"
       /\ \E d \in remote["u1"] : d.id = tasks[i].id /\ d.priority # "medium"
       /\ tasks[j].id[1] = "local" /\ tasks[j].priority = "high" /\ tasks[j].deadline = 0

\* C21: when the remote write of deleteTask(id) fails, the task leaves the
\* list and nothing else changes, in the list or in the remote store, where
\* the document still exists; the next snapshot that is delivered puts the
\* task of every document of the remote store, this one included, into the
\* list.
C21_DeleteFailureResurrected ==
  [][/\ \A i \in 1..Len(inflight) :
          (WriteFails(i) /\ inflight[i].op = "delete") =>
            /\ remote' = remote
            /\ tasks' = SelectSeq(tasks, LAMBDA t : t.id # inflight[i].id)
     /\ \A u \in Users :
          Snapshot(u) =>
            \A d \in remote[u] : \E k \in 1..Len(tasks') : tasks'[k] = TaskOfDoc(d, u)]_vars

\* a failed deleteTask has emptied the list while the document is still in
\* the remote store and the listener that will deliver it is attached
C21_Witness ==
  /\ origin = "edit"
  /\ tasks = <<>>
  /\ inflight = <<>>
  /\ userId = "u1" /\ "u1" \in listeners
  /\ persisted["u1"] # <<>>
  /\ \E d \in remote["u1"] : TaskOfDoc(d, "u1") = persisted["u1"][1]

\* C22: every call of toggleTaskStatus(id) flips the task once more, also
\* when it is issued before the snapshot echo of an earlier call has arrived:
\* a call issued when the writes of all earlier calls have settled and the
\* list holds no local edit writes the opposite of the status the earlier
\* calls have left in the remote store.
C22_Original ==
  [][\A id \in TargetIds :
       (toggleTaskStatus(id) /\ inflight = <<>> /\ origin \in {"snapshot", "replaced"}) =>
         \A d \in remote[userId] :
           d.id = id => inflight'[1].arg.status = Flip(d.status)]_vars

\* C23: createdAt never changes after creation: over every step (a settled
\* updateTask or toggleTaskStatus, a snapshot, a fallback edit) the task
\* with a given id keeps its createdAt, in the list and in the remote store.
C23_CreatedAtImmutable ==
  [][/\ \A a \in Range(tasks), b \in Range(tasks') :
          a.id = b.id => b.createdAt = a.createdAt
     /\ \A u \in Users : \A d \in remote[u], e \in remote'[u] :
          d.id = e.id => e.createdAt = d.createdAt]_vars

\* C27: the ids of the tasks of the list are pairwise distinct in every
\* reachable state, also after several addTask calls whose writes fail while
\* the clock reads the same millisecond.
C27_DistinctIds ==
  \A i, j \in 1..Len(tasks) : i # j => tasks[i].id # tasks[j].id

\* C24: no failure of a remote write is surfaced to the caller of a
\* mutation: whatever the remote store does, the call ends in its catch
\* block, no error leaves the hook, and the hook stays subscribed for the
\* signed-in user and goes on accepting operations.
C24_NoFailureSurfaced ==
  /\ ~escaped
  /\ userId # NoUser => (userId \in listeners /\ unsub = userId)

\* the writes of an addTask and of a later call have failed, the list holds
\* their fallback edits, and no error has left the hook
C24_Witness ==
  /\ origin = "edit"
  /\ inflight = <<>>
  /\ nextId > 1
  /\ \E k \in 1..Len(tasks) : tasks[k].id[1] = "local"
  /\ \E k \in 1..Len(tasks) : tasks[k].id[1] = "doc" /\ tasks[k].priority = "medium"
  /\ ~escaped /\ userId = "u1" /\ "u1" \in listeners

\* C25: a failing write to localStorage is always swallowed: when setItem
\* fails, in the snapshot handler or in the effect that saves the list after
\* the list or the user changed, no error escapes from the hook.
C25_CacheFailureSwallowed == ~storageOk => ~escaped

\* C26: a fallback load (subscribing threw, or the listener reported a
\* permission error) that finds a corrupt entry under the user's key makes
\* the list empty, and no error escapes. Stated where localStorage accepts
\* writes, so that only the load itself is in question.
C26_CorruptCacheEmpty ==
  [][\A u \in Users :
       (/\ SubscribeThrows(u) \/ SnapshotError(u, TRUE)
        /\ storageOk
        /\ cache[u].form \in CorruptForms) =>
         (tasks' = <<>> /\ ~escaped')]_vars

\* C28: a mutation whose remote write succeeds leaves the list unchanged:
\* neither the call nor the resolved write changes it. The list changes only
\* when a snapshot is delivered or when a write has failed.
C28_SuccessLeavesList ==
  [][/\ remote' # remote => tasks' = tasks
     /\ Len(inflight') > Len(inflight) => tasks' = tasks
     /\ tasks' # tasks => \/ \E u \in Users : Snapshot(u)
                          \/ \E i \in 1..Len(inflight) : WriteFails(i)]_vars

\* the addDoc of an addTask has resolved and its echo is not delivered yet:
\* the store holds the new document, the list is still the last snapshot
C28_Witness ==
  /\ inflight = <<>>
  /\ origin = "snapshot"
  /\ userId = "u1"
  /\ \E d \in remote["u1"] :
       /\ d.id = <<"doc", 1>>
       /\ \A k \in 1..Len(tasks) : tasks[k].id # d.id
  /\ tasks = persisted["u1"]
  /\ tasks # <<>>

\* C29: the entry under tasks_<u> only ever holds tasks owned by u,
\* whatever the sequence of user changes, snapshots and mutations.
C29_CacheOwnership ==
  \A u \in Users :
    \A k \in 1..Len(cache[u].items) : cache[u].items[k].userId = u

\* C30: after any sequence of snapshots, fallback loads from the cache and
\* fallback edits, the list is ordered according to the comparator of
\* sortTasks.
C30_ListSorted == Sorted(tasks)

====
